---- MODULE Spec2Model ----
(***************************************************************************)
(* pyergast: a client of the Ergast motorsport API.  Every public function *)
(* builds a URL, issues one GET through `requests`, navigates the JSON     *)
(* envelope, flattens the nested records and hands them to a pandas        *)
(* DataFrame.  The library keeps no state between calls, so the state of   *)
(* the model is the record of the current call: its arguments, the         *)
(* requests it issued, the response the transport gave, and how the call   *)
(* ended.  A call is two steps: up to requests.get (pc = "waiting"), and   *)
(* from the transport's answer to the return or the exception (pc =        *)
(* "done").                                                                *)
(*                                                                         *)
(* JSON objects are TLA+ functions from key strings to values (a key is    *)
(* present iff it is in the DOMAIN), JSON arrays are sequences.  Strings   *)
(* that the code searches or lower-cases are sequences of one-character    *)
(* strings; all other leaves are plain strings.                            *)
(*                                                                         *)
(* A DataFrame is [columns |-> set of names, rows |-> sequence of rows];   *)
(* a row is the function from the columns it has a value for to that       *)
(* value, and a column of the frame that is not in the DOMAIN of a row is  *)
(* a NaN cell of that row (pandas null-fills).  The order of the columns   *)
(* is not modelled.                                                        *)
(***************************************************************************)
EXTENDS Integers, Sequences, FiniteSets, TLC

VARIABLES pc, fn, year, race, query, requests, response, outcome, table

vars == <<pc, fn, year, race, query, requests, response, outcome, table>>

(***************************************************************************)
(* Bounds of the model.                                                    *)
(***************************************************************************)
MaxRecords == 2          \* longest record array in a response

(***************************************************************************)
(* Python values.                                                          *)
(***************************************************************************)
None == -1               \* the default of every year / race parameter
Truthy(x) == x # None /\ x # 0

Years  == {None, 1957, 1995, 2021}
Rounds == {None, 1}

HTTP_OK == 200

Limit == 1000
QualifyingFloor == 1996
ConstructorStandingsFloor == 1958

Ok(v)  == [ok |-> TRUE, val |-> v]
Err(e) == [ok |-> FALSE, err |-> e]

(***************************************************************************)
(* Strings as character sequences: str.lower() and str.contains().         *)
(***************************************************************************)
UpperToLower ==
  ("A" :> "a") @@ ("B" :> "b") @@ ("F" :> "f") @@ ("N" :> "n") @@
  ("I" :> "i") @@ ("L" :> "l") @@ ("M" :> "m") @@ ("P" :> "p") @@
  ("S" :> "s") @@ ("V" :> "v")

LowerChar(c) == IF c \in DOMAIN UpperToLower THEN UpperToLower[c] ELSE c

Lower(s) == [i \in 1..Len(s) |-> LowerChar(s[i])]

Contains(s, sub) ==
  \E i \in 0..(Len(s) - Len(sub)) : SubSeq(s, i + 1, i + Len(sub)) = sub

(***************************************************************************)
(* URLs.  'http://ergast.com/api/f1/<path>.json?limit=<limit>' is the      *)
(* record of its path segments and its limit parameter; '{}'.format(n) is  *)
(* ToString(n).                                                            *)
(***************************************************************************)
Url(path) == [path |-> path, limit |-> Limit]

Fmt(x) == IF x = None THEN "None" ELSE ToString(x)

(***************************************************************************)
(* JSON navigation: d[k1][k2]... raises KeyError at the first absent key.  *)
(***************************************************************************)
RECURSIVE GetPath(_, _)
GetPath(d, keys) ==
  IF keys = <<>> THEN Ok(d)
  ELSE IF Head(keys) \in DOMAIN d THEN GetPath(d[Head(keys)], Tail(keys))
  ELSE Err("KeyError")

\* d with key k removed (del d[k]) and d with keys added (d[k] = v)
Del(d, ks) == [k \in (DOMAIN d) \ ks |-> d[k]]
Put(d, e)  == e @@ d

(***************************************************************************)
(* pandas.                                                                 *)
(***************************************************************************)
EmptyFrame == [columns |-> {}, rows |-> <<>>]

\* a DataFrame that lists the records last to first
DataFrame_reversed(records) ==
  [columns |-> UNION {DOMAIN records[i] : i \in 1..Len(records)},
   rows    |-> [i \in 1..Len(records) |-> records[Len(records) + 1 - i]]]

\* pd.DataFrame(list of dicts): one row per dict, in order; the columns are
\* the union of the keys; a dict without a key gets NaN in that column.
DataFrame(records) ==
  [columns |-> UNION {DOMAIN records[i] : i \in 1..Len(records)},
   rows    |-> records]

\* a selection that raises KeyError as soon as one row lacks one of cols
Select_strict(df, cols) ==
  IF \A i \in 1..Len(df.rows) : cols \subseteq DOMAIN df.rows[i]
  THEN Ok([columns |-> cols,
           rows |-> [i \in 1..Len(df.rows) |-> [c \in cols |-> df.rows[i][c]]]])
  ELSE Err("KeyError")

\* df[cols]: KeyError unless every name of cols is a column of df
Select(df, cols) ==
  IF cols \subseteq df.columns
  THEN Ok([columns |-> cols,
           rows |-> [i \in 1..Len(df.rows) |->
                       [c \in cols \cap DOMAIN df.rows[i] |-> df.rows[i][c]]]])
  ELSE Err("KeyError")

\* df[mask]: the rows whose index satisfies the mask, in order
RECURSIVE FilterIdx(_, _, _)
FilterIdx(rows, keep, i) ==
  IF i > Len(rows) THEN <<>>
  ELSE (IF i \in keep THEN <<rows[i]>> ELSE <<>>) \o FilterIdx(rows, keep, i + 1)

Mask(df, keep) == [columns |-> df.columns, rows |-> FilterIdx(df.rows, keep, 1)]

IsNaN(df, i, c) == c \in df.columns /\ c \notin DOMAIN df.rows[i]

(***************************************************************************)
(* The for-loops that flatten the records in place: out[i] is the outcome  *)
(* of the loop body on record i; the first exception ends the call.        *)
(***************************************************************************)
ForEach(out) ==
  LET bad == {i \in 1..Len(out) : ~out[i].ok}
  IN IF bad = {} THEN Ok([i \in 1..Len(out) |-> out[i].val])
     ELSE out[CHOOSE i \in bad : \A j \in bad : i <= j]

\* a + ' ' + b
FullName(a, b) == <<a, " ", b>>

(***************************************************************************)
(* The result of a call: the requests it issued, the response it got (if   *)
(* any), and either the table it returned or the exception it raised.      *)
(***************************************************************************)
NoResponse == [status |-> 0]

\* a status check that lets the 404 through
status_ok_any(resp) == resp.status \in {HTTP_OK, 404}

\* assert r.status_code == 200
status_ok(resp) == resp.status = HTTP_OK

\* what follows requests.get(url): the status assertion, then the function's
\* processing of r.json(), whose outcome is `processed`
Fetched(resp, processed) ==
  IF ~status_ok(resp) THEN Err("AssertionError") ELSE processed

(***************************************************************************)
(* get_drivers, get_constructors, get_circuits                             *)
(***************************************************************************)
drivers_url(y, r) ==
  IF Truthy(y) /\ Truthy(r) THEN Ok(Url(<<Fmt(y), Fmt(r), "drivers">>))
  ELSE IF Truthy(y) THEN Ok(Url(<<Fmt(y), "drivers">>))
  ELSE Ok(Url(<<"drivers">>))

drivers_table(body) ==
  LET arr == GetPath(body, <<"MRData", "DriverTable", "Drivers">>)
  IN IF arr.ok THEN Ok(DataFrame(arr.val)) ELSE arr

constructors_url(y, r) ==
  IF Truthy(y) /\ Truthy(r) THEN Ok(Url(<<Fmt(y), Fmt(r), "constructors">>))
  ELSE IF Truthy(y) THEN Ok(Url(<<Fmt(y), "constructors">>))
  ELSE Ok(Url(<<"constructors">>))

constructors_table(body) ==
  LET arr == GetPath(body, <<"MRData", "ConstructorTable", "Constructors">>)
  IN IF arr.ok THEN Ok(DataFrame(arr.val)) ELSE arr

circuits_url(y, r) ==
  IF Truthy(y) /\ Truthy(r) THEN Ok(Url(<<Fmt(y), Fmt(r), "circuits">>))
  ELSE IF Truthy(y) THEN Ok(Url(<<Fmt(y), "circuits">>))
  ELSE Ok(Url(<<"circuits">>))

GeoKeys == {"lat", "long", "locality", "country"}

\* one turn of `for track in geo`, on the row the track belongs to; the
\* Location cell of a record without Location is NaN, and NaN['lat'] is a
\* TypeError
circuit_geo(row) ==
  IF "Location" \notin DOMAIN row THEN Err("TypeError")
  ELSE IF ~(GeoKeys \subseteq DOMAIN row["Location"]) THEN Err("KeyError")
  ELSE Ok(Del(Put(row, [Latitude   |-> row["Location"]["lat"],
                        Longtitude |-> row["Location"]["long"],
                        Locality   |-> row["Location"]["locality"],
                        Country    |-> row["Location"]["country"]]),
              {"Location"}))

circuits_table(body) ==
  LET arr == GetPath(body, <<"MRData", "CircuitTable", "Circuits">>)
  IN IF ~arr.ok THEN arr
     ELSE LET result == DataFrame(arr.val)
          IN IF "Location" \notin result.columns THEN Err("KeyError")
             ELSE LET flat == ForEach([i \in 1..Len(result.rows) |->
                                         circuit_geo(result.rows[i])])
                  IN IF ~flat.ok THEN flat
                     ELSE Ok([columns |-> (result.columns \cup
                                 {"Latitude", "Longtitude", "Locality", "Country"})
                                 \ {"Location"},
                              rows |-> flat.val])

(***************************************************************************)
(* find_driverId, find_constructorid, find_circuitid: get_drivers() (or    *)
(* get_constructors(), get_circuits()) and a boolean mask over its rows.   *)
(* Every record of the catalogues carries the searched fields, so the      *)
(* masks are defined on every row.                                         *)
(***************************************************************************)
driver_matches(row, firstname, lastname) ==
  \/ Contains(row["driverId"], Lower(firstname))
  \/ Contains(row["driverId"], Lower(lastname))

find_driver_table(body, firstname, lastname) ==
  LET df == drivers_table(body)
  IN IF ~df.ok THEN df
     ELSE IF "driverId" \notin df.val.columns THEN Err("KeyError")
     ELSE Ok(Mask(df.val, {i \in 1..Len(df.val.rows) :
                             driver_matches(df.val.rows[i], firstname, lastname)}))

constructor_matches(row, name) == Contains(row["constructorId"], Lower(name))

find_constructor_table(body, name) ==
  LET df == constructors_table(body)
  IN IF ~df.ok THEN df
     ELSE IF "constructorId" \notin df.val.columns THEN Err("KeyError")
     ELSE Ok(Mask(df.val, {i \in 1..Len(df.val.rows) :
                             constructor_matches(df.val.rows[i], name)}))

circuit_matches(row, circuit) ==
  \/ Contains(Lower(row["circuitId"]), Lower(circuit))
  \/ Contains(Lower(row["circuitName"]), Lower(circuit))
  \/ Contains(Lower(row["Locality"]), Lower(circuit))
  \/ Contains(Lower(row["Country"]), Lower(circuit))

find_circuit_table(body, circuit) ==
  LET df == circuits_table(body)
  IN IF ~df.ok THEN df
     ELSE Ok(Mask(df.val, {i \in 1..Len(df.val.rows) :
                             circuit_matches(df.val.rows[i], circuit)}))

(***************************************************************************)
(* get_race_result, get_qualifying_result                                  *)
(***************************************************************************)
race_result_url(y, r) ==
  IF Truthy(y) \/ Truthy(r)
  THEN IF Truthy(y) /\ Truthy(r) THEN Ok(Url(<<Fmt(y), Fmt(r), "results">>))
       ELSE Err("AssertionError")
  ELSE Ok(Url(<<"current", "last", "results">>))

\* the body of `for driver in result_dict`
race_result_row(driver) ==
  IF "Driver" \notin DOMAIN driver \/ "Constructor" \notin DOMAIN driver
  THEN Err("KeyError")
  ELSE LET driver_info == driver["Driver"]
           constructor_info == driver["Constructor"]
       IN IF ~({"givenName", "familyName", "driverId", "nationality"}
                 \subseteq DOMAIN driver_info)
          THEN Err("KeyError")
          ELSE IF ~({"name", "constructorId"} \subseteq DOMAIN constructor_info)
          THEN Err("KeyError")
          ELSE Ok(Put(driver,
                 [driver |-> FullName(driver_info["givenName"], driver_info["familyName"]),
                  driverID |-> driver_info["driverId"],
                  nationality |-> driver_info["nationality"],
                  constructor |-> constructor_info["name"],
                  constructorID |-> constructor_info["constructorId"]]))

race_result_cols ==
  {"number", "position", "positionText", "grid", "points", "driverID", "driver",
   "nationality", "constructorID", "constructor", "laps", "status", "Time"}

\* a navigation that takes an empty Races array for an empty record array
first_race_lenient(body, key) ==
  LET races == GetPath(body, <<"MRData", "RaceTable", "Races">>)
  IN IF ~races.ok THEN races
     ELSE IF Len(races.val) = 0 THEN Ok(<<>>)
     ELSE GetPath(races.val[1], <<key>>)

\* ...['Races'][0][key]
first_race(body, key) ==
  LET races == GetPath(body, <<"MRData", "RaceTable", "Races">>)
  IN IF ~races.ok THEN races
     ELSE IF Len(races.val) = 0 THEN Err("IndexError")
     ELSE GetPath(races.val[1], <<key>>)

race_result_table(body) ==
  LET result_dict == first_race(body, "Results")
  IN IF ~result_dict.ok THEN result_dict
     ELSE LET flat == ForEach([i \in 1..Len(result_dict.val) |->
                                 race_result_row(result_dict.val[i])])
          IN IF ~flat.ok THEN flat
             ELSE Select(DataFrame(flat.val), race_result_cols)

qualifying_url(y, r) ==
  IF Truthy(y) /\ Truthy(r)
  THEN IF y >= QualifyingFloor THEN Ok(Url(<<Fmt(y), Fmt(r), "qualifying">>))
       ELSE Err("AssertionError")
  ELSE Ok(Url(<<"current", "last", "qualifying">>))

\* the body of `for driver in result_dict`: constructor and constructorID are
\* read from driver_info
qualifying_row(driver) ==
  IF "Driver" \notin DOMAIN driver \/ "Constructor" \notin DOMAIN driver
  THEN Err("KeyError")
  ELSE LET driver_info == driver["Driver"]
       IN IF ~({"givenName", "familyName", "driverId", "nationality"}
                 \subseteq DOMAIN driver_info)
          THEN Err("KeyError")
          ELSE IF ~({"name", "constructorId"} \subseteq DOMAIN driver_info)
          THEN Err("KeyError")
          ELSE Ok(Put(driver,
                 [driver |-> FullName(driver_info["givenName"], driver_info["familyName"]),
                  driverID |-> driver_info["driverId"],
                  nationality |-> driver_info["nationality"],
                  constructor |-> driver_info["name"],
                  constructorID |-> driver_info["constructorId"]]))

qualifying_base_cols ==
  {"number", "position", "driverID", "driver", "nationality", "constructorID",
   "constructor", "Q1"}

\* a column choice that selects Q2 and Q3 without looking at the first record
qualifying_cols_any(first) ==
  qualifying_base_cols \cup {"Q2", "Q3"}

\* cols, after the two `if ... in result_dict[0].keys()`
qualifying_cols(first) ==
  qualifying_base_cols
    \cup (IF "Q2" \in DOMAIN first THEN {"Q2"} ELSE {})
    \cup (IF "Q3" \in DOMAIN first THEN {"Q3"} ELSE {})

qualifying_table(body) ==
  LET result_dict == first_race(body, "QualifyingResults")
  IN IF ~result_dict.ok THEN result_dict
     ELSE LET flat == ForEach([i \in 1..Len(result_dict.val) |->
                                 qualifying_row(result_dict.val[i])])
          IN IF ~flat.ok THEN flat
             ELSE IF Len(flat.val) = 0 THEN Err("IndexError")
             ELSE Select(DataFrame(flat.val), qualifying_cols(flat.val[1]))

(***************************************************************************)
(* get_schedule                                                            *)
(***************************************************************************)
schedule_url(y) ==
  IF Truthy(y) THEN Ok(Url(<<Fmt(y)>>)) ELSE Ok(Url(<<"current">>))

schedule_row(r) ==
  IF "Circuit" \notin DOMAIN r THEN Err("KeyError")
  ELSE LET circuit == r["Circuit"]
       IN IF ~({"circuitId", "circuitName", "Location"} \subseteq DOMAIN circuit)
          THEN Err("KeyError")
          ELSE IF ~({"locality", "country"} \subseteq DOMAIN circuit["Location"])
          THEN Err("KeyError")
          ELSE Ok(Del(Put(r, [circuitID |-> circuit["circuitId"],
                              circuitName |-> circuit["circuitName"],
                              locality |-> circuit["Location"]["locality"],
                              country |-> circuit["Location"]["country"]]),
                      {"Circuit"}))

schedule_table(body) ==
  LET schedule == GetPath(body, <<"MRData", "RaceTable", "Races">>)
  IN IF ~schedule.ok THEN schedule
     ELSE LET flat == ForEach([i \in 1..Len(schedule.val) |->
                                 schedule_row(schedule.val[i])])
          IN IF ~flat.ok THEN flat ELSE Ok(DataFrame(flat.val))

(***************************************************************************)
(* driver_standings, constructor_standings                                 *)
(***************************************************************************)
\* driver standings with the all-time path when no season is given
driver_standings_url_alltime(y, r) ==
  IF Truthy(y) /\ Truthy(r) THEN Ok(Url(<<Fmt(y), Fmt(r), "driverStandings">>))
  ELSE IF Truthy(y) THEN Ok(Url(<<Fmt(y), "driverStandings">>))
  ELSE Ok(Url(<<"driverStandings">>))

driver_standings_url(y, r) ==
  IF Truthy(y) /\ Truthy(r) THEN Ok(Url(<<Fmt(y), Fmt(r), "driverStandings">>))
  ELSE IF Truthy(y) THEN Ok(Url(<<Fmt(y), "driverStandings">>))
  ELSE Ok(Url(<<"current", "driverStandings">>))

\* ...['StandingsLists'][0][key]
first_standings_list(body, key) ==
  LET lists == GetPath(body, <<"MRData", "StandingsTable", "StandingsLists">>)
  IN IF ~lists.ok THEN lists
     ELSE IF Len(lists.val) = 0 THEN Err("IndexError")
     ELSE GetPath(lists.val[1], <<key>>)

\* the flattening of a record that carries Driver and Constructors, used by
\* driver_standings (which also sets driverID) and query_driver
driver_fields(d, withId) ==
  IF "Driver" \notin DOMAIN d THEN Err("KeyError")
  ELSE IF ~((IF withId THEN {"driverId"} ELSE {}) \cup
            {"givenName", "familyName", "nationality"} \subseteq DOMAIN d["Driver"])
  THEN Err("KeyError")
  ELSE IF "Constructors" \notin DOMAIN d THEN Err("KeyError")
  ELSE IF Len(d["Constructors"]) = 0 THEN Err("IndexError")
  ELSE IF ~({"constructorId", "name"} \subseteq DOMAIN d["Constructors"][1])
  THEN Err("KeyError")
  ELSE Ok(Put(d,
         (IF withId THEN [driverID |-> d["Driver"]["driverId"]] ELSE <<>>) @@
         [driver |-> FullName(d["Driver"]["givenName"], d["Driver"]["familyName"]),
          nationality |-> d["Driver"]["nationality"],
          constructorID |-> d["Constructors"][1]["constructorId"],
          constructor |-> d["Constructors"][1]["name"]]))

driver_standings_row(driver) ==
  LET f == driver_fields(driver, TRUE)
  IN IF ~f.ok THEN f ELSE Ok(Del(f.val, {"Driver", "Constructors"}))

driver_standings_table(body) ==
  LET standings == first_standings_list(body, "DriverStandings")
  IN IF ~standings.ok THEN standings
     ELSE LET flat == ForEach([i \in 1..Len(standings.val) |->
                                 driver_standings_row(standings.val[i])])
          IN IF ~flat.ok THEN flat ELSE Ok(DataFrame(flat.val))

constructor_standings_url(y, r) ==
  IF Truthy(y) /\ Truthy(r)
  THEN IF y >= ConstructorStandingsFloor
       THEN Ok(Url(<<Fmt(y), Fmt(r), "constructorStandings">>))
       ELSE Err("AssertionError")
  ELSE IF Truthy(y)
  THEN IF y >= ConstructorStandingsFloor
       THEN Ok(Url(<<Fmt(y), "constructorStandings">>))
       ELSE Err("AssertionError")
  ELSE Ok(Url(<<"current", "constructorStandings">>))

\* constructor_standings stores the name under 'name', query_constructor
\* under 'constructor'
constructor_fields(c, nameKey) ==
  IF "Constructor" \notin DOMAIN c THEN Err("KeyError")
  ELSE IF ~({"constructorId", "name", "nationality"} \subseteq DOMAIN c["Constructor"])
  THEN Err("KeyError")
  ELSE Ok(Del(Put(c, (nameKey :> c["Constructor"]["name"]) @@
                     [constructorID |-> c["Constructor"]["constructorId"],
                      nationality |-> c["Constructor"]["nationality"]]),
              {"Constructor"}))

constructor_standings_row(constructor) == constructor_fields(constructor, "name")

constructor_standings_table(body) ==
  LET standings == first_standings_list(body, "ConstructorStandings")
  IN IF ~standings.ok THEN standings
     ELSE LET flat == ForEach([i \in 1..Len(standings.val) |->
                                 constructor_standings_row(standings.val[i])])
          IN IF ~flat.ok THEN flat ELSE Ok(DataFrame(flat.val))

(***************************************************************************)
(* query_driver, query_constructor                                         *)
(***************************************************************************)
query_driver_url(driverid) == Ok(Url(<<"drivers", driverid, "driverStandings">>))

\* `for key, value in season[key][0].items(): season[key] = value`
hoist(season, key) ==
  IF key \notin DOMAIN season THEN Err("KeyError")
  ELSE IF Len(season[key]) = 0 THEN Err("IndexError")
  ELSE Ok(Put(season, season[key][1]))

query_driver_row(season) ==
  LET h == hoist(season, "DriverStandings")
  IN IF ~h.ok THEN h
     ELSE LET f == driver_fields(h.val, FALSE)
          IN IF ~f.ok THEN f
             ELSE Ok(Del(f.val, {"DriverStandings", "Driver", "Constructors"}))

query_driver_table(body) ==
  LET seasons == GetPath(body, <<"MRData", "StandingsTable", "StandingsLists">>)
  IN IF ~seasons.ok THEN seasons
     ELSE LET flat == ForEach([i \in 1..Len(seasons.val) |->
                                 query_driver_row(seasons.val[i])])
          IN IF ~flat.ok THEN flat ELSE Ok(DataFrame(flat.val))

query_constructor_url(constructorid) ==
  Ok(Url(<<"constructors", constructorid, "constructorStandings">>))

query_constructor_row(season) ==
  LET h == hoist(season, "ConstructorStandings")
  IN IF ~h.ok THEN h
     ELSE LET f == constructor_fields(h.val, "constructor")
          IN IF ~f.ok THEN f ELSE Ok(Del(f.val, {"ConstructorStandings"}))

query_constructor_table(body) ==
  LET seasons == GetPath(body, <<"MRData", "StandingsTable", "StandingsLists">>)
  IN IF ~seasons.ok THEN seasons
     ELSE LET flat == ForEach([i \in 1..Len(seasons.val) |->
                                 query_constructor_row(seasons.val[i])])
          IN IF ~flat.ok THEN flat ELSE Ok(DataFrame(flat.val))

(***************************************************************************)
(* What the transport can answer: a non-200 status, or a 200 whose body    *)
(* is the envelope MRData.<table>.<array> around an array of at most       *)
(* MaxRecords records, or that envelope with one of its keys absent.       *)
(***************************************************************************)
RECURSIVE SeqsUpTo(_, _)
SeqsUpTo(S, n) ==
  IF n = 0 THEN {<<>>}
  ELSE LET shorter == SeqsUpTo(S, n - 1)
       IN shorter \cup {Append(s, x) : s \in shorter, x \in S}

Envelope(tableKey, arrayKey, arr) ==
  [MRData |-> (tableKey :> ((arrayKey :> arr) @@ [season |-> "2021"]))
              @@ [series |-> "f1"]]

BrokenEnvelopes(tableKey) ==
  { [error |-> "x"],
    [MRData |-> [series |-> "f1"]],
    [MRData |-> (tableKey :> [season |-> "2021"]) @@ [series |-> "f1"]] }

Failure == [status |-> 404, body |-> [error |-> "x"]]

Responses(tableKey, arrayKey, arrays) ==
  {[status |-> 200, body |-> Envelope(tableKey, arrayKey, a)] : a \in arrays}
  \cup {[status |-> 200, body |-> b] : b \in BrokenEnvelopes(tableKey)}
  \cup {Failure}

\* drivers: two current ones and one without permanentNumber and code
Albon ==
  [driverId |-> <<"a","l","b","o","n">>, permanentNumber |-> "23", code |-> "ALB",
   url |-> "u1", givenName |-> <<"A","l","e","x">>,
   familyName |-> <<"A","l","b","o","n">>, dateOfBirth |-> "1996-03-23",
   nationality |-> "Thai"]

DeVries ==
  [driverId |-> <<"d","e","_","v","r","i","e","s">>, permanentNumber |-> "21",
   code |-> "DEV", url |-> "u2", givenName |-> <<"N","y","c","k">>,
   familyName |-> <<"d","e"," ","V","r","i","e","s">>, dateOfBirth |-> "1995-02-06",
   nationality |-> "Dutch"]

Farina ==
  [driverId |-> <<"f","a","r","i","n","a">>, url |-> "u3",
   givenName |-> <<"N","i","n","o">>, familyName |-> <<"F","a","r","i","n","a">>,
   dateOfBirth |-> "1906-10-30", nationality |-> "Italian"]

DriverRecords == {Albon, DeVries, Farina}

DriverResponses ==
  Responses("DriverTable", "Drivers", SeqsUpTo(DriverRecords, MaxRecords))

McLarenC ==
  [constructorId |-> <<"m","c","l","a","r","e","n">>, url |-> "u4",
   name |-> <<"M","c","L","a","r","e","n">>, nationality |-> "British"]

LotusC ==
  [constructorId |-> <<"l","o","t","u","s">>, url |-> "u5",
   name |-> <<"L","o","t","u","s">>, nationality |-> "British"]

ConstructorRecords == {McLarenC, LotusC}

ConstructorResponses ==
  Responses("ConstructorTable", "Constructors",
            SeqsUpTo(ConstructorRecords, MaxRecords))

SpaC ==
  [circuitId |-> <<"s","p","a">>, url |-> "u6", circuitName |-> <<"S","p","a">>,
   Location |-> [lat |-> "50.4", long |-> "5.9",
                 locality |-> <<"S","p","a">>, country |-> <<"B","e","l">>]]

MonzaC ==
  [circuitId |-> <<"m","o","n","z","a">>, url |-> "u7",
   circuitName |-> <<"M","o","n","z","a">>,
   Location |-> [lat |-> "45.6", long |-> "9.2",
                 locality |-> <<"M","o","n","z","a">>, country |-> <<"I","t">>]]

CircuitRecords == {SpaC, MonzaC}

CircuitResponses ==
  Responses("CircuitTable", "Circuits", SeqsUpTo(CircuitRecords, MaxRecords))

\* the nested objects of results, qualifying and standings
Ham == [driverId |-> "hamilton", givenName |-> "Lewis", familyName |-> "Hamilton",
        nationality |-> "British"]
Ver == [driverId |-> "max_verstappen", givenName |-> "Max",
        familyName |-> "Verstappen", nationality |-> "Dutch"]
Merc == [constructorId |-> "mercedes", name |-> "Mercedes", nationality |-> "German"]
RedBull == [constructorId |-> "red_bull", name |-> "Red Bull",
            nationality |-> "Austrian"]

\* a Driver object that also carries the two constructor fields
WithConstructor(drv, ctor) ==
  drv @@ [name |-> ctor["name"], constructorId |-> ctor["constructorId"]]

\* a race result; a driver who did not finish has no Time
ResultRecord(pos, drv, ctor, finished) ==
  [number |-> pos, position |-> pos, positionText |-> pos, grid |-> pos,
   points |-> pos, Driver |-> drv, Constructor |-> ctor, laps |-> "58",
   status |-> IF finished THEN "Finished" ELSE "Accident"]
  @@ (IF finished THEN [Time |-> [millis |-> "5400000", time |-> "1:30:00"]]
      ELSE <<>>)

ResultRecords ==
  {ResultRecord("1", Ver, RedBull, f) : f \in BOOLEAN}
  \cup {ResultRecord("2", Ham, Merc, f) : f \in BOOLEAN}

\* the Races array of a results or qualifying response: no race, a race
\* without the record array, or one race
RaceArrays(key, arrays) ==
  {<<>>, <<[season |-> "2021", round |-> "1"]>>}
  \cup {<<(key :> a) @@ [season |-> "2021", round |-> "1"]>> : a \in arrays}

RaceResultResponses ==
  Responses("RaceTable", "Races",
            RaceArrays("Results", SeqsUpTo(ResultRecords, MaxRecords)))

\* a qualifying result with the sessions Q1..Q<sessions>
QualifyingRecord(pos, drv, ctor, sessions) ==
  [number |-> pos, position |-> pos, Driver |-> drv, Constructor |-> ctor,
   Q1 |-> "1:20.1"]
  @@ (IF sessions >= 2 THEN [Q2 |-> "1:19.2"] ELSE <<>>)
  @@ (IF sessions >= 3 THEN [Q3 |-> "1:18.3"] ELSE <<>>)

QualifyingRecords ==
  {QualifyingRecord("1", Ver, RedBull, s) : s \in 1..3}
  \cup {QualifyingRecord("1", WithConstructor(Ver, RedBull), RedBull, s) : s \in 1..3}
  \cup {QualifyingRecord("2", WithConstructor(Ham, Merc), Merc, s) : s \in 1..3}

QualifyingResponses ==
  Responses("RaceTable", "Races",
            RaceArrays("QualifyingResults", SeqsUpTo(QualifyingRecords, MaxRecords)))

ScheduleRecord(round, id, locality) ==
  [season |-> "2021", round |-> round, url |-> "u8", raceName |-> locality,
   date |-> "2021-03-28",
   Circuit |-> [circuitId |-> id, url |-> "u9", circuitName |-> id,
                Location |-> [lat |-> "26.0", long |-> "50.5",
                              locality |-> locality, country |-> "Bahrain"]]]

ScheduleRecords ==
  {ScheduleRecord("1", "bahrain", "Sakhir"), ScheduleRecord("2", "imola", "Imola")}

ScheduleResponses ==
  Responses("RaceTable", "Races", SeqsUpTo(ScheduleRecords, MaxRecords))

Standing(pos, who) ==
  [position |-> pos, positionText |-> pos, points |-> "395.5", wins |-> "10"] @@ who

DriverStandingRecords ==
  {Standing("1", [Driver |-> Ver, Constructors |-> <<RedBull>>]),
   Standing("2", [Driver |-> Ham, Constructors |-> <<Merc>>])}

ConstructorStandingRecords ==
  {Standing("1", [Constructor |-> Merc]), Standing("2", [Constructor |-> RedBull])}

DriverStandingsResponses ==
  Responses("StandingsTable", "StandingsLists",
            RaceArrays("DriverStandings", SeqsUpTo(DriverStandingRecords, MaxRecords)))

ConstructorStandingsResponses ==
  Responses("StandingsTable", "StandingsLists",
            RaceArrays("ConstructorStandings",
                       SeqsUpTo(ConstructorStandingRecords, MaxRecords)))

\* the seasons of a driver's or constructor's history: one standings list
\* per season, holding the one entry of the driver or constructor
SeasonRecords(key, entries) ==
  {(key :> <<e>>) @@ [season |-> s, round |-> "17"] :
      e \in entries, s \in {"2020", "2021"}}
  \cup {(key :> <<>>) @@ [season |-> "2019", round |-> "21"]}

QueryDriverResponses ==
  Responses("StandingsTable", "StandingsLists",
            SeqsUpTo(SeasonRecords("DriverStandings", DriverStandingRecords),
                     MaxRecords))

QueryConstructorResponses ==
  Responses("StandingsTable", "StandingsLists",
            SeqsUpTo(SeasonRecords("ConstructorStandings", ConstructorStandingRecords),
                     MaxRecords))

(***************************************************************************)
(* The calls.  Call is a public function up to requests.get: its argument  *)
(* checks and the URL it builds (req), which it then requests.  Answer is  *)
(* the rest of the function on the transport's response resp, where        *)
(* `processed` is the outcome of the function's processing of resp.body.   *)
(***************************************************************************)
NoQuery == <<>>

Call(f, y, r, q, req) ==
  /\ fn' = f
  /\ year' = y
  /\ race' = r
  /\ query' = q
  /\ response' = NoResponse
  /\ table' = EmptyFrame
  /\ IF req.ok
     THEN pc' = "waiting" /\ requests' = <<req.val>> /\ outcome' = "pending"
     ELSE pc' = "done" /\ requests' = <<>> /\ outcome' = req.err

Answer(resp, processed) ==
  LET res == Fetched(resp, processed)
  IN /\ pc' = "done"
     /\ response' = resp
     /\ outcome' = IF res.ok THEN "returned" ELSE res.err
     /\ table' = IF res.ok THEN res.val ELSE EmptyFrame
     /\ UNCHANGED <<fn, year, race, query, requests>>

get_drivers ==
  /\ pc # "waiting"
  /\ \E y \in Years, r \in Rounds : Call("get_drivers", y, r, NoQuery, drivers_url(y, r))
get_drivers_answer ==
  /\ pc = "waiting"
  /\ fn = "get_drivers"
  /\ \E resp \in DriverResponses :
       Answer(resp, drivers_table(resp.body))

get_constructors ==
  /\ pc # "waiting"
  /\ \E y \in Years, r \in Rounds :
       Call("get_constructors", y, r, NoQuery, constructors_url(y, r))
get_constructors_answer ==
  /\ pc = "waiting"
  /\ fn = "get_constructors"
  /\ \E resp \in ConstructorResponses :
       Answer(resp, constructors_table(resp.body))

get_circuits ==
  /\ pc # "waiting"
  /\ \E y \in Years, r \in Rounds : Call("get_circuits", y, r, NoQuery, circuits_url(y, r))
get_circuits_answer ==
  /\ pc = "waiting"
  /\ fn = "get_circuits"
  /\ \E resp \in CircuitResponses :
       Answer(resp, circuits_table(resp.body))

\* the names a caller searches for: those of the catalogue and a stranger
Stranger == <<"S","a","m">>
GivenNames == {d["givenName"] : d \in DriverRecords} \cup {Stranger}
FamilyNames == {d["familyName"] : d \in DriverRecords} \cup {Stranger}
ConstructorNames == {c["name"] : c \in ConstructorRecords} \cup {Stranger}
CircuitQueries == {<<"S","P","A">>, <<"I","t">>, <<"m","o","n">>, Stranger}

find_driverId ==
  /\ pc # "waiting"
  /\ \E first \in GivenNames, last \in FamilyNames :
       Call("find_driverId", None, None, [firstname |-> first, lastname |-> last],
            drivers_url(None, None))
find_driverId_answer ==
  /\ pc = "waiting"
  /\ fn = "find_driverId"
  /\ \E resp \in DriverResponses :
       Answer(resp, find_driver_table(resp.body, query.firstname, query.lastname))

find_constructorid ==
  /\ pc # "waiting"
  /\ \E name \in ConstructorNames :
       Call("find_constructorid", None, None, [name |-> name],
            constructors_url(None, None))
find_constructorid_answer ==
  /\ pc = "waiting"
  /\ fn = "find_constructorid"
  /\ \E resp \in ConstructorResponses :
       Answer(resp, find_constructor_table(resp.body, query.name))

find_circuitid ==
  /\ pc # "waiting"
  /\ \E circuit \in CircuitQueries :
       Call("find_circuitid", None, None, [circuit |-> circuit], circuits_url(None, None))
find_circuitid_answer ==
  /\ pc = "waiting"
  /\ fn = "find_circuitid"
  /\ \E resp \in CircuitResponses :
       Answer(resp, find_circuit_table(resp.body, query.circuit))

get_race_result ==
  /\ pc # "waiting"
  /\ \E y \in Years, r \in Rounds :
       Call("get_race_result", y, r, NoQuery, race_result_url(y, r))
get_race_result_answer ==
  /\ pc = "waiting"
  /\ fn = "get_race_result"
  /\ \E resp \in RaceResultResponses :
       Answer(resp, race_result_table(resp.body))

get_qualifying_result ==
  /\ pc # "waiting"
  /\ \E y \in Years, r \in Rounds :
       Call("get_qualifying_result", y, r, NoQuery, qualifying_url(y, r))
get_qualifying_result_answer ==
  /\ pc = "waiting"
  /\ fn = "get_qualifying_result"
  /\ \E resp \in QualifyingResponses :
       Answer(resp, qualifying_table(resp.body))

get_schedule ==
  /\ pc # "waiting"
  /\ \E y \in Years : Call("get_schedule", y, None, NoQuery, schedule_url(y))
get_schedule_answer ==
  /\ pc = "waiting"
  /\ fn = "get_schedule"
  /\ \E resp \in ScheduleResponses :
       Answer(resp, schedule_table(resp.body))

driver_standings ==
  /\ pc # "waiting"
  /\ \E y \in Years, r \in Rounds :
       Call("driver_standings", y, r, NoQuery, driver_standings_url(y, r))
driver_standings_answer ==
  /\ pc = "waiting"
  /\ fn = "driver_standings"
  /\ \E resp \in DriverStandingsResponses :
       Answer(resp, driver_standings_table(resp.body))

constructor_standings ==
  /\ pc # "waiting"
  /\ \E y \in Years, r \in Rounds :
       Call("constructor_standings", y, r, NoQuery, constructor_standings_url(y, r))
constructor_standings_answer ==
  /\ pc = "waiting"
  /\ fn = "constructor_standings"
  /\ \E resp \in ConstructorStandingsResponses :
       Answer(resp, constructor_standings_table(resp.body))

query_driver ==
  /\ pc # "waiting"
  /\ \E id \in {"hamilton", "max_verstappen"} :
       Call("query_driver", None, None, [driverid |-> id], query_driver_url(id))
query_driver_answer ==
  /\ pc = "waiting"
  /\ fn = "query_driver"
  /\ \E resp \in QueryDriverResponses :
       Answer(resp, query_driver_table(resp.body))

query_constructor ==
  /\ pc # "waiting"
  /\ \E id \in {"mercedes", "red_bull"} :
       Call("query_constructor", None, None, [constructorid |-> id],
            query_constructor_url(id))
query_constructor_answer ==
  /\ pc = "waiting"
  /\ fn = "query_constructor"
  /\ \E resp \in QueryConstructorResponses :
       Answer(resp, query_constructor_table(resp.body))

Init ==
  /\ pc = "idle"
  /\ fn = "none"
  /\ year = None
  /\ race = None
  /\ query = NoQuery
  /\ requests = <<>>
  /\ response = NoResponse
  /\ outcome = "idle"
  /\ table = EmptyFrame

Next ==
  \/ get_drivers
  \/ get_drivers_answer
  \/ get_constructors
  \/ get_constructors_answer
  \/ get_circuits
  \/ get_circuits_answer
  \/ find_driverId
  \/ find_driverId_answer
  \/ find_constructorid
  \/ find_constructorid_answer
  \/ find_circuitid
  \/ find_circuitid_answer
  \/ get_race_result
  \/ get_race_result_answer
  \/ get_qualifying_result
  \/ get_qualifying_result_answer
  \/ get_schedule
  \/ get_schedule_answer
  \/ driver_standings
  \/ driver_standings_answer
  \/ constructor_standings
  \/ constructor_standings_answer
  \/ query_driver
  \/ query_driver_answer
  \/ query_constructor
  \/ query_constructor_answer

Spec == Init /\ [][Next]_vars

(***************************************************************************)
(* Properties.                                                             *)
(***************************************************************************)
Called == pc \in {"waiting", "done"}
Answered == pc = "done" /\ requests # <<>>

SeasonRoundFunctions ==
  {"get_drivers", "get_constructors", "get_circuits", "get_race_result",
   "get_qualifying_result", "driver_standings", "constructor_standings"}

\* the record array of the response of a results or qualifying call
RecordsOf(key) == first_race(response.body, key)

\* C1: a call of a function that takes a season and a round, with the round
\* set and the season unset, raises the argument error and issues no request.
C1_RoundWithoutSeasonRejected ==
  (Called /\ fn \in SeasonRoundFunctions /\ race # None /\ year = None)
    => (outcome = "AssertionError" /\ requests = <<>>)

\* C2: constructor_standings with a season below 1958 and
\* get_qualifying_result with a season below 1996 fail before any request is
\* issued, with or without a round.
C2_BelowFloorRejected ==
  (/\ Called
   /\ year # None
   /\ \/ fn = "constructor_standings" /\ year < ConstructorStandingsFloor
      \/ fn = "get_qualifying_result" /\ year < QualifyingFloor)
    => (outcome = "AssertionError" /\ requests = <<>>)

\* C3: on a 200 qualifying response whose records carry a Driver object with
\* exactly the upstream driver fields and a Constructor object,
\* get_qualifying_result returns a table with one row per record and the
\* columns number, position, driverID, driver, nationality, constructorID,
\* constructor, Q1.
UpstreamQualifying(recs) ==
  /\ Len(recs) > 0
  /\ \A i \in 1..Len(recs) :
       /\ DOMAIN recs[i]["Driver"] =
            {"driverId", "givenName", "familyName", "nationality"}
       /\ {"constructorId", "name"} \subseteq DOMAIN recs[i]["Constructor"]

C3_QualifyingReturnsTable ==
  (/\ Answered
   /\ fn = "get_qualifying_result"
   /\ response.status = 200
   /\ RecordsOf("QualifyingResults").ok
   /\ UpstreamQualifying(RecordsOf("QualifyingResults").val))
    => /\ outcome = "returned"
       /\ Len(table.rows) = Len(RecordsOf("QualifyingResults").val)
       /\ qualifying_base_cols \subseteq table.columns

\* C4 as claimed: the table returned by get_qualifying_result has a Q3 column
\* if and only if every record of the response has a Q3 key.
C4_Q3IffEveryRecord ==
  (fn = "get_qualifying_result" /\ outcome = "returned")
    => LET recs == RecordsOf("QualifyingResults").val
       IN ("Q3" \in table.columns) <=> (\A i \in 1..Len(recs) : "Q3" \in DOMAIN recs[i])

\* C4 as amended: the table returned by get_qualifying_result has a Q3 column
\* if and only if the first record of the response has a Q3 key; a later
\* record without Q3 gets a null cell in that column.
C4_Q3IffFirstRecord ==
  (fn = "get_qualifying_result" /\ outcome = "returned")
    => LET recs == RecordsOf("QualifyingResults").val
       IN /\ ("Q3" \in table.columns) <=> ("Q3" \in DOMAIN recs[1])
          /\ \A i \in 1..Len(recs) :
               ("Q3" \in table.columns /\ "Q3" \notin DOMAIN recs[i])
                 => IsNaN(table, i, "Q3")

C4_Witness ==
  /\ fn = "get_qualifying_result"
  /\ outcome = "returned"
  /\ "Q3" \in table.columns
  /\ \E i \in 1..Len(table.rows) : IsNaN(table, i, "Q3")

\* the flattened rows of the response of a results or qualifying call, and
\* the columns the function selects from them
FlatRows ==
  IF fn = "get_race_result"
  THEN LET recs == RecordsOf("Results").val
       IN ForEach([i \in 1..Len(recs) |-> race_result_row(recs[i])])
  ELSE LET recs == RecordsOf("QualifyingResults").val
       IN ForEach([i \in 1..Len(recs) |-> qualifying_row(recs[i])])

DeclaredCols(flat) ==
  IF fn = "get_race_result" THEN race_result_cols ELSE qualifying_cols(flat[1])

Flattened ==
  /\ Answered
  /\ fn \in {"get_race_result", "get_qualifying_result"}
  /\ response.status = 200
  /\ RecordsOf(IF fn = "get_race_result" THEN "Results" ELSE "QualifyingResults").ok
  /\ FlatRows.ok
  /\ Len(FlatRows.val) > 0

\* C5 as claimed: when a flattened row lacks a declared column, the call
\* fails with the missing-column error (KeyError) and returns no table.
C5_MissingColumnRaises ==
  (/\ Flattened
   /\ \E i \in 1..Len(FlatRows.val) :
        ~(DeclaredCols(FlatRows.val) \subseteq DOMAIN FlatRows.val[i]))
    => outcome = "KeyError"

\* C5 as amended: building the table fails with KeyError exactly when a
\* declared column is absent from every flattened row; otherwise the call
\* returns a table with all the declared columns and one row per record, in
\* which a row that lacks a column has a null cell there and every other
\* cell is the row's value.
C5_MissingColumnNullFilled ==
  Flattened =>
    LET flat == FlatRows.val
        cols == DeclaredCols(flat)
    IN IF \E c \in cols : \A i \in 1..Len(flat) : c \notin DOMAIN flat[i]
       THEN outcome = "KeyError"
       ELSE /\ outcome = "returned"
            /\ table.columns = cols
            /\ Len(table.rows) = Len(flat)
            /\ \A i \in 1..Len(flat) : \A c \in cols :
                 IF c \in DOMAIN flat[i]
                 THEN ~IsNaN(table, i, c) /\ table.rows[i][c] = flat[i][c]
                 ELSE IsNaN(table, i, c)

C5_Witness ==
  /\ fn = "get_race_result"
  /\ outcome = "returned"
  /\ \E i, j \in 1..Len(table.rows) :
       IsNaN(table, i, "Time") /\ ~IsNaN(table, j, "Time")

\* where each function expects its top-level array, and the record array
\* it expects inside the first element of that array (if any)
EnvelopePath(f) ==
  CASE f \in {"get_drivers", "find_driverId"} -> <<"MRData", "DriverTable", "Drivers">>
    [] f \in {"get_constructors", "find_constructorid"} ->
         <<"MRData", "ConstructorTable", "Constructors">>
    [] f \in {"get_circuits", "find_circuitid"} -> <<"MRData", "CircuitTable", "Circuits">>
    [] f \in {"get_race_result", "get_qualifying_result", "get_schedule"} ->
         <<"MRData", "RaceTable", "Races">>
    [] OTHER -> <<"MRData", "StandingsTable", "StandingsLists">>

InnerKey ==
  [get_race_result |-> "Results", get_qualifying_result |-> "QualifyingResults",
   driver_standings |-> "DriverStandings",
   constructor_standings |-> "ConstructorStandings"]

RetrievalFunctions ==
  SeasonRoundFunctions \cup {"get_schedule", "query_driver", "query_constructor"}

\* the keys of a path are all present
RECURSIVE HasPath(_, _)
HasPath(d, keys) ==
  keys = <<>> \/ (Head(keys) \in DOMAIN d /\ HasPath(d[Head(keys)], Tail(keys)))

RECURSIVE AtPath(_, _)
AtPath(d, keys) == IF keys = <<>> THEN d ELSE AtPath(d[Head(keys)], Tail(keys))

\* C6 as claimed: a 200 response in which an envelope key is absent or the
\* expected array is empty makes a retrieval function fail with a structure
\* error (KeyError or IndexError, not the AssertionError of a non-200
\* status); it never returns a table.
C6_StructureErrorRaised ==
  (/\ Answered
   /\ fn \in RetrievalFunctions
   /\ response.status = 200
   /\ \/ ~HasPath(response.body, EnvelopePath(fn))
      \/ Len(AtPath(response.body, EnvelopePath(fn))) = 0)
    => outcome \in {"KeyError", "IndexError"}

\* C6 as amended: a non-200 status raises AssertionError; on a 200 response
\* an absent envelope key raises KeyError; an empty array that the function
\* indexes or selects from raises IndexError (Races in get_race_result and
\* get_qualifying_result, StandingsLists in driver_standings and
\* constructor_standings, QualifyingResults) or KeyError (Circuits,
\* Results); an empty array that the function only iterates over (Drivers,
\* Constructors, the Races of get_schedule, the StandingsLists of
\* query_driver and query_constructor, DriverStandings and
\* ConstructorStandings of the current standings) returns an empty table.
IterateOnly ==
  {"get_drivers", "get_constructors", "get_schedule", "query_driver",
   "query_constructor"}

EmptyTop ==
  IF fn \in IterateOnly THEN outcome = "returned" /\ table.rows = <<>>
  ELSE IF fn = "get_circuits" THEN outcome = "KeyError"
  ELSE outcome = "IndexError"

EmptyInner ==
  IF fn \in {"driver_standings", "constructor_standings"}
  THEN outcome = "returned" /\ table.rows = <<>>
  ELSE IF fn = "get_race_result" THEN outcome = "KeyError"
  ELSE outcome = "IndexError"

C6_StructureOutcome ==
  (Answered /\ fn \in RetrievalFunctions) =>
    IF response.status # 200 THEN outcome = "AssertionError"
    ELSE IF ~HasPath(response.body, EnvelopePath(fn)) THEN outcome = "KeyError"
    ELSE LET top == AtPath(response.body, EnvelopePath(fn))
         IN IF Len(top) = 0 THEN EmptyTop
            ELSE (fn \in DOMAIN InnerKey) =>
                   IF InnerKey[fn] \notin DOMAIN top[1] THEN outcome = "KeyError"
                   ELSE Len(top[1][InnerKey[fn]]) = 0 => EmptyInner

C6_Witness ==
  /\ Answered
  /\ fn = "get_race_result"
  /\ response.status = 200
  /\ HasPath(response.body, EnvelopePath(fn))
  /\ Len(AtPath(response.body, EnvelopePath(fn))) = 0
  /\ outcome = "IndexError"

\* C7: for every driver d of the all-time table, find_driverId(d.givenName,
\* d.familyName) returns a table that contains d's row.
C7_FindDriverRoundTrip ==
  (fn = "find_driverId" /\ outcome = "returned")
    => LET all == AtPath(response.body, EnvelopePath(fn))
       IN \A i \in 1..Len(all) :
            (all[i]["givenName"] = query.firstname
               /\ all[i]["familyName"] = query.lastname)
              => \E j \in 1..Len(table.rows) : table.rows[j] = all[i]

\* C8: get_drivers and get_constructors with a season return one row per
\* record of the response's array, in the order of the array: row i holds
\* the values of record i and nothing else.
C8_RowPerRecordInOrder ==
  (fn \in {"get_drivers", "get_constructors"} /\ Truthy(year) /\ outcome = "returned")
    => LET recs == AtPath(response.body, EnvelopePath(fn))
       IN /\ Len(table.rows) = Len(recs)
          /\ \A i \in 1..Len(recs) :
               /\ DOMAIN table.rows[i] = DOMAIN recs[i]
               /\ \A c \in DOMAIN recs[i] : table.rows[i][c] = recs[i][c]

C8_Witness ==
  /\ fn = "get_drivers"
  /\ year = 2021
  /\ outcome = "returned"
  /\ Len(table.rows) = 2
  /\ table.rows[1]["driverId"] # table.rows[2]["driverId"]

\* C9: a call issues at most one request, and when the request is answered
\* with a non-200 status the call ends in the transport error
\* (AssertionError) with no table and no further request.
C9_OneRequestNoRetry ==
  /\ Len(requests) <= 1
  /\ (Answered /\ response.status # 200)
       => (outcome = "AssertionError" /\ table = EmptyFrame /\ Len(requests) = 1)

C9_Witness ==
  /\ Answered
  /\ fn = "find_circuitid"
  /\ response.status = 404
  /\ outcome = "AssertionError"

\* C10: for drivers, constructors, circuits, driverStandings and
\* constructorStandings, a call that passes validation requests /<resource>
\* (/current/<resource> for the standings) with no season and no round,
\* /<season>/<resource> with a season only and /<season>/<round>/<resource>
\* with both; and every URL requested by any function has limit=1000.
Resource ==
  [get_drivers |-> "drivers", get_constructors |-> "constructors",
   get_circuits |-> "circuits", driver_standings |-> "driverStandings",
   constructor_standings |-> "constructorStandings"]

C10_UrlPaths ==
  /\ \A i \in 1..Len(requests) : requests[i].limit = 1000
  /\ (fn \in DOMAIN Resource /\ requests # <<>>) =>
       /\ (year = None /\ race = None) =>
            requests[1].path =
              IF fn \in {"driver_standings", "constructor_standings"}
              THEN <<"current", Resource[fn]>> ELSE <<Resource[fn]>>
       /\ (year # None /\ race = None) =>
            requests[1].path = <<ToString(year), Resource[fn]>>
       /\ (year # None /\ race # None) =>
            requests[1].path = <<ToString(year), ToString(race), Resource[fn]>>

C10_Witness ==
  /\ fn = "constructor_standings"
  /\ year = 2021
  /\ race = 1
  /\ requests = <<[path |-> <<"2021", "1", "constructorStandings">>, limit |-> 1000]>>

====
